---- MODULE Spec2Model ----
(***************************************************************************)
(* A model of render_all_lite.py: the data loader, the asset copier, the   *)
(* template renderer, the build pipeline and the file-system watcher.      *)
(*                                                                         *)
(* The string operations of the script (startswith, endswith, "in",        *)
(* replace, glob patterns) work on sequences of one-character strings and  *)
(* are computed character by character, as Python computes them.  The     *)
(* state names each path by a string; Chars spells every name out.         *)
(***************************************************************************)
EXTENDS Naturals, Integers, Sequences, FiniteSets, TLC

\* ------------------------------------------------------------ bounds

\* The number of user edits, foreign events and direct calls of a behaviour.
MaxSteps == 2

\* The number of injected copy and render failures of a behaviour (the
\* failures of the loader are those the data files force).
MaxFaults == 1

\* ------------------------------------------------------------ strings

StartsWith(s, p) == Len(p) <= Len(s) /\ SubSeq(s, 1, Len(p)) = p

EndsWith(s, p) == Len(p) <= Len(s) /\ SubSeq(s, Len(s) - Len(p) + 1, Len(s)) = p

\* Python's "p in s" for strings.
Contains(s, p) == \E i \in 1..(Len(s) - Len(p) + 1) : SubSeq(s, i, i + Len(p) - 1) = p

\* Python's s.replace(old, new): every non-overlapping occurrence, left to right.
RECURSIVE Replace(_, _, _)
Replace(s, old, new) ==
    IF Len(s) < Len(old) THEN s
    ELSE IF StartsWith(s, old)
         THEN new \o Replace(SubSeq(s, Len(old) + 1, Len(s)), old, new)
         ELSE <<Head(s)>> \o Replace(Tail(s), old, new)

\* The segments of a path between its "/" separators.
RECURSIVE Split(_)
Split(s) ==
    IF \A i \in 1..Len(s) : s[i] # "/" THEN <<s>>
    ELSE LET i == CHOOSE j \in 1..Len(s) : s[j] = "/" /\ \A k \in 1..(j - 1) : s[k] # "/"
         IN  <<SubSeq(s, 1, i - 1)>> \o Split(SubSeq(s, i + 1, Len(s)))

\* os.path.join(a, b) for a relative b.
Join(a, b) == a \o <<"/">> \o b

\* os.path.relpath(p, start) for a p below start.
RelPath(p, start) == SubSeq(p, Len(start) + 2, Len(p))

\* os.path.dirname(p).
DirName(p) ==
    LET cut == {i \in 1..Len(p) : p[i] = "/"}
    IN  IF cut = {} THEN <<>>
        ELSE SubSeq(p, 1, (CHOOSE i \in cut : \A j \in cut : j <= i) - 1)

\* ------------------------------------------------------------ glob

\* A pattern segment is a sequence of character classes; Star is "*".
Star == {"*"}

\* "**" of a recursive glob.
StarStar == <<Star, Star>>

Lit(s) == [i \in 1..Len(s) |-> {s[i]}]

\* fnmatch of one name against one pattern segment.
RECURSIVE FnMatch(_, _)
FnMatch(name, pat) ==
    IF pat = <<>> THEN name = <<>>
    ELSE IF Head(pat) = Star
         THEN \E i \in 0..Len(name) : FnMatch(SubSeq(name, i + 1, Len(name)), Tail(pat))
         ELSE /\ name # <<>>
              /\ Head(name) \in Head(pat)
              /\ FnMatch(Tail(name), Tail(pat))

\* glob never matches a name with a leading dot against a pattern without one.
Hidden(name) == name # <<>> /\ Head(name) = "."

SegMatch(name, pat) ==
    /\ (Hidden(name) => (pat # <<>> /\ Head(pat) = {"."}))
    /\ FnMatch(name, pat)

\* A path (as segments) against a pattern (as pattern segments), recursive=True.
RECURSIVE GlobMatch(_, _)
GlobMatch(segs, pats) ==
    IF pats = <<>> THEN segs = <<>>
    ELSE IF Head(pats) = StarStar
         THEN \/ GlobMatch(segs, Tail(pats))
              \/ /\ segs # <<>>
                 /\ ~Hidden(Head(segs))
                 /\ GlobMatch(Tail(segs), pats)
         ELSE /\ segs # <<>>
              /\ SegMatch(Head(segs), Head(pats))
              /\ GlobMatch(Tail(segs), Tail(pats))

\* ------------------------------------------------------------ names

s_templates == <<"t","e","m","p","l","a","t","e","s">>
s_data == <<"d","a","t","a">>
s_site == <<"s","i","t","e">>
s_partials == <<"p","a","r","t","i","a","l","s">>
s_html == <<".","h","t","m","l">>
s_j2 == <<".","j","2">>
s_jinja == <<".","j","i","n","j","a">>
s_html_j2 == s_html \o s_j2
s_html_jinja == s_html \o s_jinja

\* 'data/*.[jJ][sS][oO][nN]'
PatJson ==
    << Lit(s_data), <<Star, {"."}, {"j","J"}, {"s","S"}, {"o","O"}, {"n","N"}>> >>

\* 'data/*.[yY][aA][mM][lL]'
PatYaml ==
    << Lit(s_data), <<Star, {"."}, {"y","Y"}, {"a","A"}, {"m","M"}, {"l","L"}>> >>

\* 'templates/**/*.html'
PatHtml == << Lit(s_templates), StarStar, <<Star>> \o Lit(s_html) >>

\* 'templates/**/*.*'
PatAny == << Lit(s_templates), StarStar, <<Star, {"."}, Star>> >>

\* ------------------------------------------------------------ the file universe

T(rel) == Join(s_templates, rel)
D(rel) == Join(s_data, rel)
Out(rel) == Join(s_site, rel)

\* The spelling of every path name of the model.
Chars ==
       ("" :> <<>>)
    @@ ("templates" :> s_templates)
    @@ ("templates/x" :> T(<<"x">>))
    @@ ("templates/partials" :> T(s_partials))
    @@ ("templates/x/a.html.j2" :> T(<<"x","/","a">> \o s_html_j2))
    @@ ("templates/x/a.jinja" :> T(<<"x","/","a">> \o s_jinja))
    @@ ("templates/partials/_nav.j2" :> T(s_partials \o <<"/","_","n","a","v">> \o s_j2))
    @@ ("templates/nopartials.j2" :> T(<<"n","o">> \o s_partials \o s_j2))
    @@ ("templates/foo.html" :> T(<<"f","o","o">> \o s_html))
    @@ ("templates/x/p.html" :> T(<<"x","/","p">> \o s_html))
    @@ ("data" :> s_data)
    @@ ("data/a.json" :> D(<<"a",".","j","s","o","n">>))
    @@ ("data/b.JSON" :> D(<<"b",".","J","S","O","N">>))
    @@ ("data/c.yaml" :> D(<<"c",".","y","a","m","l">>))
    @@ ("data/n.txt" :> D(<<"n",".","t","x","t">>))
    @@ ("site" :> s_site)
    @@ ("site/x" :> Out(<<"x">>))
    @@ ("site/x/a.html" :> Out(<<"x","/","a">> \o s_html))
    @@ ("site/foo.html" :> Out(<<"f","o","o">> \o s_html))
    @@ ("site/x/p.html" :> Out(<<"x","/","p">> \o s_html))

\* The name a spelling belongs to.
Name(cs) == CHOOSE p \in DOMAIN Chars : Chars[p] = cs

\* glob.glob(pattern, recursive=True) over the entries (files and directories).
Glob(entries, pats) == {p \in entries : GlobMatch(Split(Chars[p]), pats)}

TreeFiles ==
    {"templates/x/a.html.j2", "templates/x/a.jinja", "templates/partials/_nav.j2",
     "templates/nopartials.j2", "templates/foo.html", "templates/x/p.html"}

DataFiles == {"data/a.json", "data/b.JSON", "data/c.yaml", "data/n.txt"}

\* The directories of the source trees; no edit of the model removes one.
SourceDirs == {"templates", "templates/x", "templates/partials", "data"}

\* destination = os.path.join('site', os.path.relpath(html_file, 'templates'))
Destination(html_file) == Name(Join(s_site, RelPath(Chars[html_file], s_templates)))

\* The filter of the template list:
\* f.endswith(('.j2', '.jinja')) and 'partials' not in f
IsTemplate(f) ==
    /\ EndsWith(Chars[f], s_j2) \/ EndsWith(Chars[f], s_jinja)
    /\ ~Contains(Chars[f], s_partials)

\* outname = os.path.join('site', relpath.replace('.html.j2', '.html')
\*     .replace('.j2', '.html').replace('.html.jinja', '.html').replace('.jinja', '.html'))
OutName(template_path) ==
    Name(Join(s_site,
         Replace(Replace(Replace(Replace(RelPath(Chars[template_path], s_templates),
             s_html_j2, s_html), s_j2, s_html), s_html_jinja, s_html), s_jinja, s_html)))

\* Every ancestor directory of a path, as os.makedirs creates them.
RECURSIVE Ancestors(_)
Ancestors(p) ==
    IF DirName(Chars[p]) = <<>> THEN {}
    ELSE {Name(DirName(Chars[p]))} \cup Ancestors(Name(DirName(Chars[p])))

\* Every path the working directory can hold.
Universe == DOMAIN Chars \ {""}

\* The path computations, tabulated over the universe.
GlobTable == [pats \in {PatJson, PatYaml, PatHtml, PatAny} |-> Glob(Universe, pats)]
TemplateTable == {f \in GlobTable[PatAny] : IsTemplate(f)}
DestinationTable == [f \in GlobTable[PatHtml] |-> Destination(f)]
OutNameTable == [f \in TemplateTable |-> OutName(f)]
AncestorsTable ==
    [p \in {Destination(f) : f \in GlobTable[PatHtml]} \cup {OutName(f) : f \in TemplateTable}
        |-> Ancestors(p)]

\* The parsed top level of a data file: what json.load / yaml.safe_load
\* returns ("mapping", "sequence"), or that open or the parser raises ("error").  An item is
\* a <<key, value>> pair, or a value that is no pair.
c_k1 == [top |-> "mapping", items |-> << <<"k", 1>> >>]
c_k2_j1 == [top |-> "mapping", items |-> << <<"k", 2>>, <<"j", 1>> >>]
c_truncated == [top |-> "error", items |-> <<>>]
c_pairs_then_junk == [top |-> "sequence", items |-> << <<"k", 3>>, <<0>> >>]

DataContents == {c_k1, c_k2_j1, c_truncated, c_pairs_then_junk}

Keys == {"k", "j"}

\* ------------------------------------------------------------ state

VARIABLES
    pc,          \* where __main__ is: "start" before the initial build, then "watching"
    tree,        \* the files that exist under templates/
    data_dir,    \* the files that exist under data/, each with its parsed content
    dirs,        \* the directories that exist
    site,        \* the files that exist under site/, each with its content
    queue,       \* the change events the observer has yet to dispatch
    last,        \* instrumentation of the latest render_all: its calls, the source
                 \* files it ran on (fs_tree, fs_data) and what each loop did
    runs,        \* the number of render_all invocations so far
    steps,       \* edits, foreign events and direct calls so far
    faults       \* injected failures so far

vars == <<pc, tree, data_dir, dirs, site, queue, last, runs, steps, faults>>

\* ------------------------------------------------------------ load_data

\* Faulty variant: the dictionary of the previous build is kept.
DataInitStale == last.data

\* `data = {}`: the dictionary a load starts from.
DataInit == {}

\* d[k] = v on a dictionary kept as a set of <<key, value>> pairs.
Put(d, k, v) == {p \in d : p[1] # k} \cup {<<k, v>>}

\* dict.update over a sequence of items: each item is inserted as it is
\* reached, and an item that is no pair raises, keeping what was inserted.
RECURSIVE UpdateFromSeq(_, _)
UpdateFromSeq(d, items) ==
    IF items = <<>> THEN [data |-> d, ok |-> TRUE]
    ELSE IF Len(Head(items)) # 2 THEN [data |-> d, ok |-> FALSE]
         ELSE UpdateFromSeq(Put(d, Head(items)[1], Head(items)[2]), Tail(items))

\* data.update(parsed)
DictUpdate(d, parsed) ==
    IF parsed.top \in {"mapping", "sequence"}
    THEN UpdateFromSeq(d, parsed.items)
    ELSE [data |-> d, ok |-> FALSE]

\* One pass of a loader loop: open, parse, update; any exception is caught.
\* A globbed path that is no file cannot be opened.
LoadOne(f, dfs, acc) ==
    IF f \notin DOMAIN dfs \/ dfs[f].top = "error"
    THEN [acc EXCEPT !.failed = @ \cup {f}]
    ELSE LET u == DictUpdate(acc.data, dfs[f])
         IN  IF u.ok
             THEN [acc EXCEPT !.data = u.data, !.loaded = @ \cup {f}]
             ELSE [acc EXCEPT !.data = u.data, !.failed = @ \cup {f}]

\* Faulty variant: the first failing file ends the loop.
RECURSIVE LoadLoopAbort(_, _, _)
LoadLoopAbort(order, dfs, acc) ==
    IF order = <<>> \/ acc.failed # {} THEN acc
    ELSE LoadLoopAbort(Tail(order), dfs, LoadOne(Head(order), dfs, acc))

RECURSIVE LoadLoop(_, _, _)
LoadLoop(order, dfs, acc) ==
    IF order = <<>> THEN acc
    ELSE LoadLoop(Tail(order), dfs, LoadOne(Head(order), dfs, acc))

\* load_data(): the JSON files in glob order, then the YAML files.
load_data(dfs, order) ==
    LoadLoop(order, dfs, [data |-> DataInit, loaded |-> {}, failed |-> {}])

\* ------------------------------------------------------------ injected failures

\* A fault plan maps some of the files a loop is about to process to the
\* stage at which processing that file raises.
FaultChoices(files, stages, n) ==
    UNION {[F -> stages] : F \in {S \in SUBSET files : Cardinality(S) <= n}}

FaultAt(fault, f) == IF f \in DOMAIN fault THEN fault[f] ELSE "none"

RECURSIVE Perms(_)
Perms(S) ==
    IF S = {} THEN {<<>>}
    ELSE UNION {{<<x>> \o p : p \in Perms(S \ {x})} : x \in S}

Without(fn, p) == [q \in DOMAIN fn \ {p} |-> fn[q]]

\* ------------------------------------------------------------ copy_html_files

\* The stages at which copying one file can raise: while creating the
\* directory or removing the old destination ("prepare"), in shutil.copy
\* before the destination is opened ("copy"), or while its bytes are
\* written ("partial").
CopyStages == {"prepare", "copy", "partial"}

\* One pass of the copy loop; any exception is caught.
CopyOne(f, fs_dirs, fault, acc) ==
    LET dest == DestinationTable[f]
        stage == FaultAt(fault, f)
        removed == Without(acc.site, dest)
        made == acc.dirs \cup AncestorsTable[dest]
    IN  IF stage = "prepare"
        THEN [acc EXCEPT !.skipped = @ \cup {f}]
        ELSE IF stage = "copy" \/ f \in fs_dirs
        THEN [acc EXCEPT !.dirs = made, !.site = removed, !.skipped = @ \cup {f}]
        ELSE IF stage = "partial"
        THEN [acc EXCEPT !.dirs = made,
                         !.site = (dest :> [src |-> f, ctx |-> {}, whole |-> FALSE]) @@ removed,
                         !.skipped = @ \cup {f}]
        ELSE [acc EXCEPT !.dirs = made,
                         !.site = (dest :> [src |-> f, ctx |-> {}, whole |-> TRUE]) @@ removed,
                         !.done = @ \cup {f}]

RECURSIVE CopyLoop(_, _, _, _)
CopyLoop(order, fs_dirs, fault, acc) ==
    IF order = <<>> THEN acc
    ELSE CopyLoop(Tail(order), fs_dirs, fault, CopyOne(Head(order), fs_dirs, fault, acc))

\* copy_html_files(): make site/, then copy every globbed .html file.
copy_html_files(order, fs_dirs, fault, fs_site) ==
    CopyLoop(order, fs_dirs, fault,
             [site |-> fs_site, dirs |-> fs_dirs \cup {"site"}, done |-> {}, skipped |-> {}])

\* ------------------------------------------------------------ render_all_templates

\* The stages at which rendering one template can raise: in get_template,
\* render or makedirs ("raise": TemplateError or another exception), or
\* while the opened output file is written ("write").
RenderStages == {"raise", "write"}

\* One pass of the render loop; TemplateError and Exception are both caught.
RenderOne(t, data, fs_dirs, fault, acc) ==
    LET out == OutNameTable[t]
        stage == FaultAt(fault, t)
        made == acc.dirs \cup AncestorsTable[out]
    IN  IF stage = "raise" \/ t \in fs_dirs
        THEN [acc EXCEPT !.skipped = @ \cup {t}]
        ELSE IF stage = "write"
        THEN [acc EXCEPT !.dirs = made,
                         !.site = (out :> [src |-> t, ctx |-> data, whole |-> FALSE]) @@ acc.site,
                         !.skipped = @ \cup {t}]
        ELSE [acc EXCEPT !.dirs = made,
                         !.site = (out :> [src |-> t, ctx |-> data, whole |-> TRUE]) @@ acc.site,
                         !.done = @ \cup {t}]

\* Faulty variant: the first failing template ends the loop.
RECURSIVE RenderLoopAbort(_, _, _, _, _)
RenderLoopAbort(order, data, fs_dirs, fault, acc) ==
    IF order = <<>> \/ acc.skipped # {} THEN acc
    ELSE RenderLoopAbort(Tail(order), data, fs_dirs, fault,
                         RenderOne(Head(order), data, fs_dirs, fault, acc))

RECURSIVE RenderLoop(_, _, _, _, _)
RenderLoop(order, data, fs_dirs, fault, acc) ==
    IF order = <<>> THEN acc
    ELSE RenderLoop(Tail(order), data, fs_dirs, fault,
                    RenderOne(Head(order), data, fs_dirs, fault, acc))

\* A trigger is None, a str or a list of str.
NoTrigger == [type |-> "None", path |-> "", items |-> <<>>]
Str(p) == [type |-> "str", path |-> p, items |-> <<>>]
List(ps) == [type |-> "list", path |-> "", items |-> ps]

\* `if trigger_file:`
Truthy(trigger) ==
    \/ trigger.type = "str" /\ Chars[trigger.path] # <<>>
    \/ trigger.type = "list" /\ trigger.items # <<>>

\* `if isinstance(trigger_file, list): trigger_file = trigger_file[0]`
First(trigger) == IF trigger.type = "list" THEN trigger.items[1] ELSE trigger.path

\* Faulty variant: no fast path.
NeverFastPath(trigger) == FALSE

\* `if trigger_file: ... if trigger_file.endswith('.html'): copy_html_files(); return`
FastPath(trigger) == Truthy(trigger) /\ EndsWith(Chars[First(trigger)], s_html)

\* ------------------------------------------------------------ render_all

\* Everything glob can see from the working directory.
Entries == tree \cup DOMAIN data_dir \cup dirs \cup DOMAIN site

\* glob.glob(pattern, recursive=True) in the working directory.
glob(pats) == Entries \cap GlobTable[pats]

NoRun ==
    [trigger |-> NoTrigger, calls |-> <<>>, order |-> <<>>, data |-> {},
     loaded |-> {}, failed |-> {}, template_files |-> {}, rendered |-> {},
     html_files |-> {}, copied |-> {}, skipped |-> {},
     fs_tree |-> {}, fs_data |-> [p \in {} |-> c_truncated]]

\* render_all_templates(env, data, trigger_file): the fast path copies the
\* .html files and returns; otherwise site/ is made and every file of the
\* filtered template list is rendered, in list order.
render_all_templates(trigger, ld, order, spare) ==
    IF FastPath(trigger)
    THEN LET html_files == glob(PatHtml)
         IN  \E oh \in Perms(html_files) :
             \E fc \in FaultChoices(html_files, CopyStages, spare) :
             \E r \in {copy_html_files(oh, dirs, fc, site)} :
                    /\ site' = r.site
                    /\ dirs' = r.dirs
                    /\ faults' = MaxFaults - spare + Cardinality(DOMAIN fc)
                    /\ last' = [NoRun EXCEPT
                                  !.trigger = trigger,
                                  !.fs_tree = tree, !.fs_data = data_dir,
                                  !.calls = <<"load_data", "render_all_templates",
                                              "copy_html_files">>,
                                  !.order = order, !.data = ld.data,
                                  !.loaded = ld.loaded, !.failed = ld.failed,
                                  !.html_files = html_files,
                                  !.copied = r.done, !.skipped = r.skipped]
    ELSE LET template_files == glob(PatAny) \cap TemplateTable
         IN  \E ot \in Perms(template_files) :
             \E fr \in FaultChoices(template_files, RenderStages, spare) :
             \E r \in {RenderLoop(ot, ld.data, dirs, fr,
                                    [site |-> site, dirs |-> dirs \cup {"site"},
                                     done |-> {}, skipped |-> {}])} :
                    /\ site' = r.site
                    /\ dirs' = r.dirs
                    /\ faults' = MaxFaults - spare + Cardinality(DOMAIN fr)
                    /\ last' = [NoRun EXCEPT
                                  !.trigger = trigger,
                                  !.fs_tree = tree, !.fs_data = data_dir,
                                  !.calls = <<"load_data", "render_all_templates">>,
                                  !.order = order, !.data = ld.data,
                                  !.loaded = ld.loaded, !.failed = ld.failed,
                                  !.template_files = template_files,
                                  !.rendered = r.done, !.skipped = r.skipped]

\* render_all(trigger_file): load the data, then render_all_templates.
render_all(trigger) ==
    LET json == glob(PatJson)
        yaml == glob(PatYaml)
    IN  \E oj \in Perms(json), oy \in Perms(yaml) :
        \E data \in {load_data(data_dir, oj \o oy)} :
            /\ render_all_templates(trigger, data, oj \o oy, MaxFaults - faults)
            /\ runs' = runs + 1

\* ------------------------------------------------------------ ChangeHandler

Event(p, kind, is_dir) == [src_path |-> p, kind |-> kind, is_directory |-> is_dir]

\* Faulty variant: directory events are not filtered out.
RelevantAlsoDirs(event) ==
    \/ StartsWith(Chars[event.src_path], s_templates \o <<"/">>)
    \/ StartsWith(Chars[event.src_path], s_data \o <<"/">>)

\* not event.is_directory and (event.src_path.startswith('templates/')
\*                             or event.src_path.startswith('data/'))
Relevant(event) ==
    /\ ~event.is_directory
    /\ \/ StartsWith(Chars[event.src_path], s_templates \o <<"/">>)
       \/ StartsWith(Chars[event.src_path], s_data \o <<"/">>)

\* The body the three handlers share: render_all(event.src_path) for a
\* relevant event, nothing otherwise.
handle(event) ==
    IF Relevant(event)
    THEN render_all(Str(event.src_path))
    ELSE UNCHANGED <<site, dirs, last, runs, faults>>

\* The observer thread takes the next event and calls the handler of its kind.
on_modified ==
    /\ pc = "watching" /\ queue # <<>> /\ Head(queue).kind = "modified"
    /\ queue' = Tail(queue)
    /\ handle(Head(queue))
    /\ UNCHANGED <<pc, tree, data_dir, steps>>

on_created ==
    /\ pc = "watching" /\ queue # <<>> /\ Head(queue).kind = "created"
    /\ queue' = Tail(queue)
    /\ handle(Head(queue))
    /\ UNCHANGED <<pc, tree, data_dir, steps>>

on_deleted ==
    /\ pc = "watching" /\ queue # <<>> /\ Head(queue).kind = "deleted"
    /\ queue' = Tail(queue)
    /\ handle(Head(queue))
    /\ UNCHANGED <<pc, tree, data_dir, steps>>

\* ------------------------------------------------------------ __main__

\* render_all() at process start, before the observer is started.
Main ==
    /\ pc = "start"
    /\ render_all(NoTrigger)
    /\ pc' = "watching"
    /\ UNCHANGED <<tree, data_dir, queue, steps>>

\* ------------------------------------------------------------ the environment

\* The edits of the model: the data files written (with their new parsed
\* content), the files written under templates/, and the files deleted.
DataWrites == {<<"data/c.yaml", c_pairs_then_junk>>, <<"data/a.json", c_truncated>>}
TreeWrites == {"templates/foo.html"}
Deletes == {"data/a.json", "data/b.JSON", "templates/x/a.html.j2", "templates/foo.html"}

\* The user writes a data file: the observer reports created or modified.
WriteData ==
    /\ pc = "watching" /\ steps < MaxSteps
    /\ \E w \in DataWrites :
          /\ data_dir' = (w[1] :> w[2]) @@ data_dir
          /\ queue' = Append(queue,
                 Event(w[1], IF w[1] \in DOMAIN data_dir THEN "modified" ELSE "created", FALSE))
    /\ steps' = steps + 1
    /\ UNCHANGED <<pc, tree, dirs, site, last, runs, faults>>

\* The user writes a file under templates/.
WriteTree ==
    /\ pc = "watching" /\ steps < MaxSteps
    /\ \E f \in TreeWrites :
          /\ tree' = tree \cup {f}
          /\ queue' = Append(queue,
                 Event(f, IF f \in tree THEN "modified" ELSE "created", FALSE))
    /\ steps' = steps + 1
    /\ UNCHANGED <<pc, data_dir, dirs, site, last, runs, faults>>

\* The user deletes a source file.
Delete ==
    /\ pc = "watching" /\ steps < MaxSteps
    /\ \E f \in Deletes \cap (tree \cup DOMAIN data_dir) :
          /\ tree' = tree \ {f}
          /\ data_dir' = Without(data_dir, f)
          /\ queue' = Append(queue, Event(f, "deleted", FALSE))
    /\ steps' = steps + 1
    /\ UNCHANGED <<pc, dirs, site, last, runs, faults>>

\* Events the handler filters out: a directory event of a watched tree,
\* and an event for a path under neither watched root.
OtherEvents ==
    {Event("templates/x", "modified", TRUE), Event("site/foo.html", "modified", FALSE)}

Notify ==
    /\ pc = "watching" /\ steps < MaxSteps
    /\ \E ev \in OtherEvents : queue' = Append(queue, ev)
    /\ steps' = steps + 1
    /\ UNCHANGED <<pc, tree, data_dir, dirs, site, last, runs, faults>>

\* Triggers that only a direct call of render_all can pass.
CallTriggers ==
    {List(<<"templates/foo.html", "data/a.json">>), List(<<"data/a.json", "templates/foo.html">>)}

Call ==
    /\ pc = "watching" /\ steps < MaxSteps
    /\ \E t \in CallTriggers : render_all(t)
    /\ steps' = steps + 1
    /\ UNCHANGED <<pc, tree, data_dir, queue>>

\* ------------------------------------------------------------ specification

Init ==
    /\ pc = "start"
    /\ tree = TreeFiles
    /\ data_dir = ("data/a.json" :> c_k1) @@ ("data/b.JSON" :> c_k2_j1) @@ ("data/n.txt" :> c_k1)
    /\ dirs = SourceDirs
    /\ site = <<>>
    /\ queue = <<>>
    /\ last = NoRun
    /\ runs = 0
    /\ steps = 0
    /\ faults = 0

\* The process as __main__ runs it: the initial build, then the observer
\* dispatching the events of the user's edits.
NextWatch ==
    \/ Main
    \/ on_modified
    \/ on_created
    \/ on_deleted
    \/ WriteData
    \/ WriteTree
    \/ Delete
    \/ Notify

SpecWatch == Init /\ [][NextWatch]_vars

\* The same, with render_all also called directly with a list.
Next ==
    \/ NextWatch
    \/ Call

Spec == Init /\ [][Next]_vars

\* ------------------------------------------------------------ properties

Ran == runs > 0

Called(name) == \E i \in DOMAIN last.calls : last.calls[i] = name

\* The trigger path of a trigger that has one.
HasPath(t) == t.type = "str" \/ (t.type = "list" /\ t.items # <<>>)
PathOf(t) == IF t.type = "list" THEN t.items[1] ELSE t.path

HtmlAssets(tr) == {f \in tr : EndsWith(Chars[f], s_html)}

\* The templates the renderer takes from a tree.
TemplatesOf(tr) == tr \cap TemplateTable

HasSegment(p, name) == \E i \in DOMAIN Split(Chars[p]) : Split(Chars[p])[i] = name

HasTemplateExtension(p) == EndsWith(Chars[p], s_j2) \/ EndsWith(Chars[p], s_jinja)

\* A relative template path with its trailing template extension cut off.
Stem(rel) ==
    IF EndsWith(rel, s_html_j2) THEN SubSeq(rel, 1, Len(rel) - Len(s_html_j2))
    ELSE IF EndsWith(rel, s_html_jinja) THEN SubSeq(rel, 1, Len(rel) - Len(s_html_jinja))
    ELSE IF EndsWith(rel, s_j2) THEN SubSeq(rel, 1, Len(rel) - Len(s_j2))
    ELSE IF EndsWith(rel, s_jinja) THEN SubSeq(rel, 1, Len(rel) - Len(s_jinja))
    ELSE rel

\* The output file the data model gives a template: same relative
\* directory, trailing template extension replaced by ".html".
MirroredOutput(t) == Name(Join(s_site, Stem(RelPath(Chars[t], s_templates)) \o s_html))

KeysIn(content) == {content.items[i][1] : i \in {j \in DOMAIN content.items : Len(content.items[j]) = 2}}

\* The value a mapping file gives a key.
ValueIn(content, k) ==
    LET at == {i \in DOMAIN content.items : content.items[i][1] = k}
    IN  content.items[CHOOSE i \in at : \A j \in at : j <= i][2]

\* The file of a set that comes last in a processing order.
LastOf(files, order) ==
    LET at == {i \in DOMAIN order : order[i] \in files}
    IN  order[CHOOSE i \in at : \A j \in at : j <= i]

\* The data files the loader's two patterns match.
Matching(dfs) == DOMAIN dfs \ {"data/n.txt"}

C2_Original ==
    (Ran /\ last.trigger.type = "None") =>
        /\ Called("load_data")
        /\ last.rendered \cup last.skipped = TemplatesOf(last.fs_tree)
        /\ Called("copy_html_files")
        /\ last.html_files = HtmlAssets(last.fs_tree)
        /\ \A f \in HtmlAssets(last.fs_tree) : DestinationTable[f] \in DOMAIN site

\* C3: a run whose trigger path does not end in ".html" loads the data from
\* scratch (every pair of the context comes from a data file that exists at
\* that run), renders every template against that context, and does not
\* copy .html files.
C3_Rebuild ==
    (Ran /\ HasPath(last.trigger) /\ ~EndsWith(Chars[PathOf(last.trigger)], s_html)) =>
        /\ last.calls = <<"load_data", "render_all_templates">>
        /\ \A pair \in last.data :
              \E f \in Matching(last.fs_data) :
                 \E i \in DOMAIN last.fs_data[f].items : last.fs_data[f].items[i] = pair
        /\ last.rendered \cup last.skipped = TemplatesOf(last.fs_tree)
        /\ \A t \in last.rendered :
              /\ OutNameTable[t] \in DOMAIN site
              /\ site[OutNameTable[t]].ctx = last.data
        /\ last.html_files = {} /\ last.copied = {}

\* A data file was deleted, and the rebuild its event triggered holds no
\* key of it.
C3_Witness ==
    /\ Ran /\ last.trigger = Str("data/b.JSON")
    /\ "data/b.JSON" \notin DOMAIN last.fs_data
    /\ last.rendered # {}
    /\ \A pair \in last.data : pair[1] # "j"

\* C4: a data file that fails to load never aborts the load: every matching
\* file is processed, every key of every well-formed file is in the result,
\* and the result is a mapping (empty when no file matches).
C4_LoadSurvives ==
    Ran =>
        /\ last.loaded \cup last.failed = Matching(last.fs_data)
        /\ \A f \in Matching(last.fs_data) :
              last.fs_data[f].top = "mapping" =>
                 /\ f \in last.loaded
                 /\ \A k \in KeysIn(last.fs_data[f]) : \E pair \in last.data : pair[1] = k
        /\ \A p1, p2 \in last.data : p1[1] = p2[1] => p1 = p2
        /\ Matching(last.fs_data) = {} => last.data = {}

\* A load in which one file failed and another was merged.
C4_Witness ==
    /\ Ran
    /\ \E f \in last.failed : last.fs_data[f].top = "error"
    /\ last.loaded # {} /\ last.data # {}

\* C5: dispatching a change event invokes render_all exactly once, with the
\* event's path, if the event is no directory event and its path starts
\* with "templates/" or "data/", whatever its kind; otherwise render_all is
\* not invoked.  Events are dispatched one by one, each with its own run.
C5_Dispatch ==
    [][(queue # <<>> /\ queue' = Tail(queue)) =>
          IF /\ ~Head(queue).is_directory
             /\ \/ StartsWith(Chars[Head(queue).src_path], s_templates \o <<"/">>)
                \/ StartsWith(Chars[Head(queue).src_path], s_data \o <<"/">>)
          THEN runs' = runs + 1 /\ last'.trigger = Str(Head(queue).src_path)
          ELSE runs' = runs /\ last' = last /\ site' = site]_vars

\* Two edits were made and both events dispatched: three runs in all.
C5_Witness ==
    /\ pc = "watching" /\ queue = <<>>
    /\ "data/c.yaml" \in DOMAIN data_dir /\ "templates/x/a.html.j2" \notin tree
    /\ runs = 3

\* C6 as stated: every rendered template has its own output file, at the
\* mirrored path with only the trailing template extension replaced.
C6_Original ==
    (Ran /\ ~Called("copy_html_files")) =>
        \A t \in last.rendered :
           /\ MirroredOutput(t) \in DOMAIN site
           /\ site[MirroredOutput(t)].src = t

\* C7 as stated: the renderer takes exactly the files with a template
\* extension whose path has no segment named "partials".
C7_Original ==
    (Ran /\ ~Called("copy_html_files")) =>
        /\ last.template_files =
              {f \in last.fs_tree : HasTemplateExtension(f) /\ ~HasSegment(f, s_partials)}
        /\ \A p \in DOMAIN site : ~HasSegment(site[p].src, s_partials)

\* C8 as stated: a key at the top level of more than one successfully
\* loaded file has the value of the one processed last among them.
C8_Original ==
    Ran =>
        \A k \in Keys :
           LET writers == {f \in last.loaded : k \in KeysIn(last.fs_data[f])}
           IN  Cardinality(writers) > 1 =>
                  <<k, ValueIn(last.fs_data[LastOf(writers, last.order)], k)>> \in last.data

\* C9: a failure while copying one .html file or rendering one template
\* ends neither loop: every file of the run is processed, and every file
\* that did not fail has its output in site/.
C9_NoFatal ==
    Ran =>
        IF Called("copy_html_files")
        THEN /\ last.copied \cup last.skipped = HtmlAssets(last.fs_tree)
             /\ last.copied \cap last.skipped = {}
             /\ \A f \in last.copied : DestinationTable[f] \in DOMAIN site
        ELSE /\ last.rendered \cup last.skipped = TemplatesOf(last.fs_tree)
             /\ last.rendered \cap last.skipped = {}
             /\ \A t \in last.rendered : OutNameTable[t] \in DOMAIN site

\* A render loop in which one template failed and another was rendered.
C9_Witness ==
    /\ Ran /\ ~Called("copy_html_files")
    /\ last.skipped # {} /\ last.rendered # {}

\* C10 as stated: no step removes a file from site/.
C10_Original == [][\A p \in DOMAIN site : p \in DOMAIN site']_vars

====
